---- MODULE Spec2Model ----
(***************************************************************************)
(* Room-state synchronisation engine of src/server/index.js: the           *)
(* socket.io handlers registered in io.on("connection") together with the  *)
(* two in-memory maps userSocketMap and roomsFiles.                        *)
(*                                                                         *)
(* One action per handler.  Every handler runs to completion (Node's       *)
(* single-threaded event loop), so an action is the whole handler.  The    *)
(* variable out holds, in emission order, the emit calls made by the last  *)
(* handler together with the connections each one is delivered to; ev      *)
(* holds the client event that handler processed.  NextTick ends the turn  *)
(* of the event loop and clears both.                                      *)
(*                                                                         *)
(* Spec is the socket server with every payload.  SpecRoster, SpecStore    *)
(* and SpecRooms run the same handlers for clients that send a part of the *)
(* events: membership and relay over both rooms, every event within one    *)
(* room, and every event in either room with one payload of each kind.     *)
(* SpecHttp is the two HTTP endpoints /chat and /run, SpecHttpFair adds    *)
(* what their libraries promise about the upstream calls, SpecProxy runs   *)
(* endpoints and socket handlers on the one event loop, and SpecClients    *)
(* puts clients with replicas of the file list around the handlers.        *)
(***************************************************************************)
EXTENDS Integers, Sequences, FiniteSets

VARIABLES
    connected,      \* socket ids of the live connections (io.on("connection") .. "disconnect")
    userSocketMap,  \* socketId -> [username, roomId]                    (index.js:23)
    roomsFiles,     \* roomId -> sequence of [name, content]             (index.js:24)
    rooms,          \* io.sockets.adapter.rooms: roomId -> socket ids, in insertion order
    ev,             \* the client event processed by the last handler
    out,            \* the emit calls of the last handler, in order
    http,           \* the /chat and the /run request in progress          (index.js:36, 160)
    replica,        \* socket id -> the file list that client shows
    toServer,       \* socket id -> client events on their way to the server, oldest first
    toClient        \* socket id -> server events on their way to the client, oldest first

vars == <<connected, userSocketMap, roomsFiles, rooms, ev, out,
          http, replica, toServer, toClient>>

(* The clients' side of the connections. *)
clientVars == <<replica, toServer, toClient>>

----------------------------------------------------------------------------
(* Bounds of the model *)

NumConns == 2
MaxFiles == 2

Conns == 1..NumConns

(* JavaScript's undefined, for a payload field the client left out or a  *)
(* lookup that found nothing.                                             *)
Undef == "<undefined>"
(* A fileIndex the client left out (undefined), encoded as an integer     *)
(* outside every index the model draws.                                   *)
UndefIndex == -99

(* Room ids a client may name.  "" is a string like any other for the     *)
(* maps and for the adapter, but is falsy in `if (roomId)`.               *)
RoomIds == {"r1", ""}
(* A room id that is also the name of a property every object inherits. *)
ProtoRoom == "constructor"
Usernames == {"Alice", Undef}
Names == {"main.py", "a.py"}
Contents == {"", "x"}
Files == [name : Names, content : Contents]
FileIndexes == {UndefIndex} \cup ((-1)..MaxFiles)

(* JavaScript truthiness of a string-or-undefined value. *)
Truthy(v) == v /= Undef /\ v /= ""

----------------------------------------------------------------------------
(* Helpers for JavaScript objects used as maps *)

Put(f, k, v) == [x \in (DOMAIN f) \cup {k} |-> IF x = k THEN v ELSE f[x]]
Delete(f, k) == [x \in (DOMAIN f) \ {k} |-> f[x]]
EmptyMap == [x \in {} |-> Undef]

(* The names every object literal inherits from Object.prototype: eleven  *)
(* of them name a function, and __proto__ names Object.prototype itself.   *)
ObjectPrototypeFunctions ==
    {"constructor", "__defineGetter__", "__defineSetter__", "hasOwnProperty",
     "__lookupGetter__", "__lookupSetter__", "isPrototypeOf",
     "propertyIsEnumerable", "toString", "valueOf", "toLocaleString"}
ObjectPrototypeKeys == ObjectPrototypeFunctions \cup {"__proto__"}
InheritedFunction == "<function>"
InheritedObject == "<Object.prototype>"
(* What JSON.stringify writes for Object.prototype, which has no           *)
(* enumerable property: the empty object.                                  *)
EmptyObject == "{}"

(* obj[key] on an object literal: an own property, else an inherited one,  *)
(* else undefined.                                                         *)
Get(obj, key) ==
    IF key \in DOMAIN obj THEN obj[key]
    ELSE IF key \in ObjectPrototypeFunctions THEN InheritedFunction
    ELSE IF key = "__proto__" THEN InheritedObject
    ELSE Undef

(* roomsFiles[roomId], the value the handlers test and send.  roomsFiles   *)
(* is an object literal (index.js:24): a room it holds yields its file     *)
(* list, an inherited name yields the inherited value whether or not a     *)
(* client ever created such a room, and any other name yields undefined.   *)
(* The field files is the list of an "array" and is empty otherwise.       *)
StoreValue(kind, files) == [kind |-> kind, files |-> files]
Lookup(rf, roomId) ==
    IF roomId \in DOMAIN rf THEN StoreValue("array", rf[roomId])
    ELSE IF Get(rf, roomId) = InheritedFunction THEN StoreValue("function", <<>>)
    ELSE IF Get(rf, roomId) = InheritedObject THEN StoreValue("object", <<>>)
    ELSE StoreValue("undefined", <<>>)

(* The name resolves to an inherited value: truthy, and neither push nor   *)
(* splice is a method of it, so calling either throws a TypeError.         *)
Inherited(rf, roomId) == Lookup(rf, roomId).kind \in {"function", "object"}

Range(s) == {s[i] : i \in DOMAIN s}

RECURSIVE Without(_, _)
Without(s, x) ==
    IF s = <<>> THEN <<>>
    ELSE IF Head(s) = x THEN Without(Tail(s), x)
    ELSE <<Head(s)>> \o Without(Tail(s), x)

----------------------------------------------------------------------------
(* socket.io primitives *)

(* socket.join(roomId): the adapter keeps a Set per room, so a repeated   *)
(* join neither duplicates nor moves the socket.                          *)
SocketJoin(rms, c, roomId) ==
    IF c \in Range(rms[roomId]) THEN rms
    ELSE [rms EXCEPT ![roomId] = Append(@, c)]

(* The transport removes a closing socket from every room before the      *)
(* "disconnect" handler runs.                                             *)
LeaveAll(rms, c) == [r \in DOMAIN rms |-> Without(rms[r], c)]

(* Faulty variant of IoTo: the sockets of every room (io.emit). *)
IoToEveryRoom(rms, roomId) == UNION {Range(rms[r]) : r \in DOMAIN rms}
(* io.to(roomId).emit: every socket of the room. *)
IoTo(rms, roomId) == Range(rms[roomId])

(* Faulty variant of SocketTo: the sender is not excluded. *)
SocketToExceptNobody(rms, c, roomId) == Range(rms[roomId])
(* socket.to(roomId).emit: every socket of the room except the sender. *)
SocketTo(rms, c, roomId) == Range(rms[roomId]) \ {c}

Emit(event, to, data) == [event |-> event, to |-> to, data |-> data]

(* [...(io.sockets.adapter.rooms.get(roomId) || [])].map(id => ({socketId, *)
(* username: userSocketMap[id]?.username || "Anonymous"}))                 *)
Clients(rms, usm, roomId) ==
    [i \in 1..Len(rms[roomId]) |->
        [socketId |-> rms[roomId][i],
         username |-> IF rms[roomId][i] \in DOMAIN usm
                         /\ Truthy(usm[rms[roomId][i]].username)
                      THEN usm[rms[roomId][i]].username
                      ELSE "Anonymous"]]

----------------------------------------------------------------------------
(* Array operations on a room's file list (fileIndex is zero-based) *)

DefaultFile == [name |-> "main.py", content |-> ""]
NoFile == [name |-> Undef, content |-> Undef]

(* roomsFiles[roomId] && roomsFiles[roomId][fileIndex]: every stored file *)
(* is an object, so the element is truthy exactly when it exists; an      *)
(* inherited value has no element at an index, and the test is false.     *)
HasFile(rf, roomId, fileIndex) ==
    /\ roomId \in DOMAIN rf
    /\ fileIndex >= 0
    /\ fileIndex < Len(rf[roomId])

(* Array.prototype.splice(start, 1): an undefined start is 0, a negative  *)
(* start counts from the end, a start past the end removes nothing.       *)
SpliceStart(files, start) ==
    IF start = UndefIndex THEN 0
    ELSE IF start < 0 THEN (IF Len(files) + start > 0 THEN Len(files) + start ELSE 0)
    ELSE IF start < Len(files) THEN start ELSE Len(files)

(* Faulty variant of Splice: removes the element after the one named. *)
SpliceOffByOne(files, start) ==
    [j \in 1..(IF SpliceStart(files, start) < Len(files) THEN Len(files) - 1 ELSE Len(files)) |->
        IF j <= SpliceStart(files, start) + 1 THEN files[j] ELSE files[j + 1]]
Splice(files, start) ==
    [j \in 1..(IF SpliceStart(files, start) < Len(files) THEN Len(files) - 1 ELSE Len(files)) |->
        IF j <= SpliceStart(files, start) THEN files[j] ELSE files[j + 1]]

----------------------------------------------------------------------------
(* Values of the two HTTP endpoints *)

(* A string of a /chat payload is the sequence of its pieces: single       *)
(* characters for text that a client or the upstream service supplies, a   *)
(* whole literal as one piece for a fixed message of the server.           *)
MaxMsgLen == 2
Chars == {" ", "a"}
Whitespace == {" "}
StringsUpTo(n) == UNION {[1..k -> Chars] : k \in 0..n}

JsString(s) == [kind |-> "string", chars |-> s]
JsUndefined == [kind |-> "undefined", chars |-> <<>>]
JsNull == [kind |-> "null", chars |-> <<>>]
(* A truthy value that is not a string (a number, an array, an object): it *)
(* has no trim method.                                                     *)
JsObject == [kind |-> "object", chars |-> <<>>]

(* String.prototype.trim *)
RECURSIVE TrimStart(_)
TrimStart(s) ==
    IF Len(s) > 0 /\ Head(s) \in Whitespace THEN TrimStart(Tail(s)) ELSE s
RECURSIVE TrimEnd(_)
TrimEnd(s) ==
    IF Len(s) > 0 /\ s[Len(s)] \in Whitespace THEN TrimEnd(SubSeq(s, 1, Len(s) - 1)) ELSE s
Trim(s) == TrimEnd(TrimStart(s))

(* The two fixed replies; the second one without the warning sign it      *)
(* starts with in the source, a character these strings cannot hold.      *)
PleaseEnter == <<"Please enter a message.">>
Unavailable == <<"AI Assistant is currently unavailable. Please try again later.">>

(* Faulty variant of IsBlank: only the falsy messages. *)
IsBlankEmptyOnly(message) ==
    \/ message.kind \in {"undefined", "null"}
    \/ message.kind = "string" /\ Len(message.chars) = 0
(* !message || message.trim() === "", for a message on which trim exists: *)
(* undefined, null and the empty string are falsy.                        *)
IsBlank(message) ==
    \/ message.kind \in {"undefined", "null"}
    \/ message.kind = "string" /\ Len(message.chars) = 0
    \/ message.kind = "string" /\ Len(Trim(message.chars)) = 0

ChatResponse(status, reply) == [status |-> status, reply |-> reply]
NoChatResponse == ChatResponse(0, <<>>)

(* A /chat request: its stage, its message, what became of the upstream    *)
(* call ("uncalled", "pending", "resolved", "rejected") and the response.  *)
ChatSlot(stage, message, upstream, response) ==
    [stage |-> stage, message |-> message, upstream |-> upstream, response |-> response]
NoChat == ChatSlot("none", JsUndefined, "uncalled", NoChatResponse)

(* What openai.chat.completions.create can settle to: a rejection, or a    *)
(* completion whose choices[0].message.content is a string or null.        *)
ChatOutcome(settled, content) == [settled |-> settled, content |-> content]
ChatOutcomes ==
    {ChatOutcome("rejected", JsNull), ChatOutcome("resolved", JsNull)}
       \cup {ChatOutcome("resolved", JsString(s)) : s \in StringsUpTo(MaxMsgLen)}

(* The /chat handler up to its first await *)
ChatStart(message) ==
    IF IsBlank(message)
    THEN ChatSlot("done", message, "uncalled", ChatResponse(400, PleaseEnter))
    ELSE IF message.kind /= "string"
    THEN ChatSlot("done", message, "uncalled", ChatResponse(500, Unavailable))
    ELSE ChatSlot("awaiting", message, "pending", NoChatResponse)

(* The /chat handler from the settled await to its response *)
ChatFinish(slot, outcome) ==
    IF outcome.settled = "resolved" /\ outcome.content.kind = "string"
    THEN ChatSlot("done", slot.message, "resolved",
                  ChatResponse(200, Trim(outcome.content.chars)))
    ELSE ChatSlot("done", slot.message, outcome.settled, ChatResponse(500, Unavailable))

(* The two object literals of the /run handler *)
VersionMap ==
    [l \in {"python", "java", "cpp", "c", "javascript", "php", "ruby", "go",
            "csharp", "swift", "kotlin"} |->
        IF l \in {"cpp", "c"} THEN "5"
        ELSE IF l \in {"ruby", "go", "csharp"} THEN "3"
        ELSE "4"]
LangMap ==
    [l \in {"python", "java", "cpp", "c", "javascript", "php", "ruby", "go",
            "csharp", "swift", "kotlin"} |->
        IF l = "python" THEN "python3"
        ELSE IF l = "cpp" THEN "cpp17"
        ELSE IF l = "javascript" THEN "nodejs"
        ELSE l]

(* a || b *)
Or(a, b) == IF Truthy(a) THEN a ELSE b

(* JSON.stringify of an object: a property whose value is undefined or a   *)
(* function is left out, and Object.prototype is written as {}.            *)
Stringify(obj) ==
    [k \in {x \in DOMAIN obj : obj[x] \notin {Undef, InheritedFunction}} |->
        IF obj[k] = InheritedObject THEN EmptyObject ELSE obj[k]]

(* The body /run sends upstream (the two credentials of the environment    *)
(* are the same in every request and are not shown).                       *)
ForwardedBody(language, code) ==
    Stringify([script |-> code,
               language |-> Or(Get(LangMap, language), "python3"),
               versionIndex |-> Or(Get(VersionMap, language), "4")])

RunResponse(status, output) == [status |-> status, output |-> output]
NoRunResponse == RunResponse(0, Undef)

(* What response.json() can settle to: a rejection (the body is not JSON), *)
(* the JSON value null, or an object with or without output and error.     *)
RunData(kind, output, error) == [kind |-> kind, output |-> output, error |-> error]
NoData == RunData("none", Undef, Undef)

(* A /run request: its stage ("none", "fetching", "reading", "done"), its  *)
(* inputs, the body sent upstream, whether fetch rejected, what            *)
(* response.json() settled to, and the response.                           *)
RunSlot(stage, language, code, sent, failed, data, response) ==
    [stage |-> stage, language |-> language, code |-> code, sent |-> sent,
     failed |-> failed, data |-> data, response |-> response]
NoRun == RunSlot("none", Undef, Undef, EmptyMap, FALSE, NoData, NoRunResponse)
RunDatas ==
    {RunData("rejected", Undef, Undef), RunData("null", Undef, Undef)}
       \cup {RunData("object", o, e) : o \in {Undef, "", "out"}, e \in {Undef, "err"}}

(* The /run handler up to its first await *)
RunStart(language, code) ==
    RunSlot("fetching", language, code, ForwardedBody(language, code), FALSE, NoData,
            NoRunResponse)

(* The /run handler from the settled fetch to its second await *)
RunAfterFetch(slot, ok) ==
    IF ok
    THEN [slot EXCEPT !.stage = "reading"]
    ELSE [slot EXCEPT !.stage = "done", !.failed = TRUE,
                      !.response = RunResponse(200, "Error running code")]

(* The /run handler from the settled response.json() to its response *)
RunFinish(slot, data) ==
    IF data.kind = "object"
    THEN [slot EXCEPT !.stage = "done", !.data = data,
                      !.response = RunResponse(200, Or(data.output, Or(data.error, "No output")))]
    ELSE [slot EXCEPT !.stage = "done", !.data = data,
                      !.response = RunResponse(200, "Error running code")]

NoRequests == [chat |-> NoChat, run |-> NoRun]

(* A client's view of the files of its room: the client is "new", has sent *)
(* its join ("joining"), or has received the snapshot ("ready").           *)
NoReplica == [phase |-> "new", files |-> <<>>]

----------------------------------------------------------------------------
(* The client event recorded in ev *)

Event(type, c, roomId, fileIndex, text, file) ==
    [type |-> type, conn |-> c, roomId |-> roomId, fileIndex |-> fileIndex,
     text |-> text, file |-> file]

NoEvent == Event("none", 0, Undef, UndefIndex, Undef, NoFile)

(* Faulty variant of Idle: an upstream call is made synchronously, so a    *)
(* request waiting for its upstream holds the event loop.                 *)
IdleUnlessSuspended ==
    /\ ev = NoEvent
    /\ http.chat.stage /= "awaiting"
    /\ http.run.stage \notin {"fetching", "reading"}
(* No handler is running and the packets of the last one have left: the   *)
(* event loop is free to take the next client event.                      *)
Idle == ev = NoEvent

Init ==
    /\ connected = {}
    /\ userSocketMap = EmptyMap
    /\ roomsFiles = EmptyMap
    /\ rooms = [r \in RoomIds \cup {ProtoRoom} |-> <<>>]
    /\ ev = NoEvent
    /\ out = <<>>
    /\ http = NoRequests
    /\ replica = [c \in Conns |-> NoReplica]
    /\ toServer = [c \in Conns |-> <<>>]
    /\ toClient = [c \in Conns |-> <<>>]

----------------------------------------------------------------------------
(* Handlers *)

(* io.on("connection"): a fresh socket.  A closed socket's id is reused as *)
(* the name of a fresh one; the server keeps nothing about a closed id.    *)
Connect(c) ==
    /\ Idle
    /\ c \notin connected
    /\ connected' = connected \cup {c}
    /\ ev' = Event("connection", c, Undef, UndefIndex, Undef, NoFile)
    /\ out' = <<>>
    /\ UNCHANGED <<userSocketMap, roomsFiles, rooms>>

(* The store after `if (!roomsFiles[roomId]) roomsFiles[roomId] = [main.py]` *)
EnsureRoom(rf, roomId) ==
    IF Lookup(rf, roomId).kind = "undefined" THEN Put(rf, roomId, <<DefaultFile>>) ELSE rf

(* Faulty variant of Join: the roster is broadcast before the snapshot. *)
JoinRosterFirst(c, roomId, username) ==
    /\ Idle
    /\ c \in connected
    /\ userSocketMap' = Put(userSocketMap, c, [username |-> username, roomId |-> roomId])
    /\ rooms' = SocketJoin(rooms, c, roomId)
    /\ roomsFiles' = EnsureRoom(roomsFiles, roomId)
    /\ out' = << Emit("joined", IoTo(rooms', roomId),
                      [clients |-> Clients(rooms', userSocketMap', roomId)]),
                 Emit("initialize-files", {c}, Lookup(roomsFiles', roomId)) >>
    /\ ev' = Event("join", c, roomId, UndefIndex, username, NoFile)
    /\ UNCHANGED connected
(* socket.on("join") *)
Join(c, roomId, username) ==
    /\ Idle
    /\ c \in connected
    /\ userSocketMap' = Put(userSocketMap, c, [username |-> username, roomId |-> roomId])
    /\ rooms' = SocketJoin(rooms, c, roomId)
    /\ roomsFiles' = EnsureRoom(roomsFiles, roomId)
    /\ out' = << Emit("initialize-files", {c}, Lookup(roomsFiles', roomId)),
                 Emit("joined", IoTo(rooms', roomId),
                      [clients |-> Clients(rooms', userSocketMap', roomId)]) >>
    /\ ev' = Event("join", c, roomId, UndefIndex, username, NoFile)
    /\ UNCHANGED connected

(* The local `roomId` of the disconnect handler:                           *)
(* const { roomId } = userSocketMap[socket.id] || {}                       *)
RegistryRoom(usm, c) == IF c \in DOMAIN usm THEN usm[c].roomId ELSE Undef

(* Faulty variant of Disconnect: announces every departure to all the     *)
(* remaining connections, without the `if (roomId)` test.                 *)
DisconnectAlwaysBroadcasts(c) ==
    /\ Idle
    /\ c \in connected
    /\ connected' = connected \ {c}
    /\ rooms' = LeaveAll(rooms, c)
    /\ userSocketMap' = Delete(userSocketMap, c)
    /\ out' = << Emit("disconnected", connected', [socketId |-> c, clients |-> <<>>]) >>
    /\ ev' = Event("disconnect", c, RegistryRoom(userSocketMap, c), UndefIndex, Undef, NoFile)
    /\ UNCHANGED roomsFiles
(* socket.on("disconnect") *)
Disconnect(c) ==
    /\ Idle
    /\ c \in connected
    /\ connected' = connected \ {c}
    /\ rooms' = LeaveAll(rooms, c)
    /\ userSocketMap' = Delete(userSocketMap, c)
    /\ out' = IF Truthy(RegistryRoom(userSocketMap, c))
              THEN << Emit("disconnected", IoTo(rooms', RegistryRoom(userSocketMap, c)),
                           [socketId |-> c,
                            clients |-> Clients(rooms', userSocketMap',
                                                RegistryRoom(userSocketMap, c))]) >>
              ELSE <<>>
    /\ ev' = Event("disconnect", c, RegistryRoom(userSocketMap, c), UndefIndex, Undef, NoFile)
    /\ UNCHANGED roomsFiles

(* Faulty variant of CodeChange: the edit of a connection whose registry   *)
(* record does not name the room is dropped.                              *)
CodeChangeMembersOnly(c, roomId, code, fileIndex) ==
    /\ Idle
    /\ c \in connected
    /\ IF RegistryRoom(userSocketMap, c) = roomId
       THEN /\ roomsFiles' = IF HasFile(roomsFiles, roomId, fileIndex)
                             THEN [roomsFiles EXCEPT ![roomId][fileIndex + 1].content = code]
                             ELSE roomsFiles
            /\ out' = << Emit("code-change", SocketTo(rooms, c, roomId),
                              [code |-> code, fileIndex |-> fileIndex]) >>
       ELSE /\ roomsFiles' = roomsFiles
            /\ out' = <<>>
    /\ ev' = Event("code-change", c, roomId, fileIndex, code, NoFile)
    /\ UNCHANGED <<connected, userSocketMap, rooms>>
(* socket.on("code-change") *)
CodeChange(c, roomId, code, fileIndex) ==
    /\ Idle
    /\ c \in connected
    /\ roomsFiles' = IF HasFile(roomsFiles, roomId, fileIndex)
                     THEN [roomsFiles EXCEPT ![roomId][fileIndex + 1].content = code]
                     ELSE roomsFiles
    /\ out' = << Emit("code-change", SocketTo(rooms, c, roomId),
                      [code |-> code, fileIndex |-> fileIndex]) >>
    /\ ev' = Event("code-change", c, roomId, fileIndex, code, NoFile)
    /\ UNCHANGED <<connected, userSocketMap, rooms>>

(* socket.on("cursor-change") *)
CursorChange(c, roomId, username, cursor) ==
    /\ Idle
    /\ c \in connected
    /\ out' = << Emit("cursor-change", SocketTo(rooms, c, roomId),
                      [username |-> username, cursor |-> cursor]) >>
    /\ ev' = Event("cursor-change", c, roomId, cursor, username, NoFile)
    /\ UNCHANGED <<connected, userSocketMap, roomsFiles, rooms>>

(* Faulty variant of ChatMessage: relays with socket.to, as code-change does. *)
ChatMessageToOthers(c, roomId, username, message, timestamp) ==
    /\ Idle
    /\ c \in connected
    /\ out' = << Emit("chat-message", SocketTo(rooms, c, roomId),
                      [username |-> username, message |-> message,
                       timestamp |-> timestamp]) >>
    /\ ev' = Event("chat-message", c, roomId, timestamp, message, NoFile)
    /\ UNCHANGED <<connected, userSocketMap, roomsFiles, rooms>>
(* socket.on("chat-message") *)
ChatMessage(c, roomId, username, message, timestamp) ==
    /\ Idle
    /\ c \in connected
    /\ out' = << Emit("chat-message", IoTo(rooms, roomId),
                      [username |-> username, message |-> message,
                       timestamp |-> timestamp]) >>
    /\ ev' = Event("chat-message", c, roomId, timestamp, message, NoFile)
    /\ UNCHANGED <<connected, userSocketMap, roomsFiles, rooms>>

(* The store after `if (!roomsFiles[roomId]) roomsFiles[roomId] = [];     *)
(* roomsFiles[roomId].push(file)`: on an inherited value the test is       *)
(* false and the call of push throws before anything is stored.            *)
PushFile(rf, roomId, file) ==
    IF Lookup(rf, roomId).kind = "undefined" THEN Put(rf, roomId, <<file>>)
    ELSE IF Inherited(rf, roomId) THEN rf
    ELSE [rf EXCEPT ![roomId] = Append(@, file)]

(* socket.on("add-file"); the guard on the length bounds the model.  When  *)
(* push throws, the handler is left at line 115 and nothing is emitted.    *)
AddFile(c, roomId, file) ==
    /\ Idle
    /\ c \in connected
    /\ roomId \in DOMAIN roomsFiles => Len(roomsFiles[roomId]) < MaxFiles
    /\ roomsFiles' = PushFile(roomsFiles, roomId, file)
    /\ out' = IF Inherited(roomsFiles, roomId) THEN <<>>
              ELSE << Emit("file-added", IoTo(rooms, roomId),
                           [file |-> file, fileIndex |-> Len(roomsFiles'[roomId]) - 1]) >>
    /\ ev' = Event("add-file", c, roomId, UndefIndex, Undef, file)
    /\ UNCHANGED <<connected, userSocketMap, rooms>>

(* socket.on("rename-file") *)
RenameFile(c, roomId, fileIndex, newName) ==
    /\ Idle
    /\ c \in connected
    /\ IF HasFile(roomsFiles, roomId, fileIndex)
       THEN /\ roomsFiles' = [roomsFiles EXCEPT ![roomId][fileIndex + 1].name = newName]
            /\ out' = << Emit("file-renamed", IoTo(rooms, roomId),
                              [fileIndex |-> fileIndex, newName |-> newName]) >>
       ELSE /\ roomsFiles' = roomsFiles
            /\ out' = <<>>
    /\ ev' = Event("rename-file", c, roomId, fileIndex, newName, NoFile)
    /\ UNCHANGED <<connected, userSocketMap, rooms>>

(* socket.on("delete-file"): an inherited value passes the test of line   *)
(* 132 and the call of splice throws, so the handler is left at line 134  *)
(* with nothing changed and nothing emitted.                              *)
DeleteFile(c, roomId, fileIndex) ==
    /\ Idle
    /\ c \in connected
    /\ IF roomId \in DOMAIN roomsFiles
       THEN /\ roomsFiles' = [roomsFiles EXCEPT ![roomId] = Splice(@, fileIndex)]
            /\ out' = << Emit("file-deleted", IoTo(rooms, roomId),
                              [fileIndex |-> fileIndex]) >>
       ELSE /\ roomsFiles' = roomsFiles
            /\ out' = <<>>
    /\ ev' = Event("delete-file", c, roomId, fileIndex, Undef, NoFile)
    /\ UNCHANGED <<connected, userSocketMap, rooms>>

(* The handler has returned and the transport has taken its packets: the  *)
(* event loop turns to the next event.  Handlers run to completion one    *)
(* at a time, so no handler starts before this.                           *)
NextTick ==
    /\ ~Idle
    /\ ev' = NoEvent
    /\ out' = <<>>
    /\ UNCHANGED <<connected, userSocketMap, roomsFiles, rooms>>

----------------------------------------------------------------------------
(* The two HTTP endpoints.  An async handler runs from the request to its  *)
(* first await, and from each settled await to the next one or to the      *)
(* response, each piece in a turn of the event loop of its own.            *)

(* app.post("/chat"), lines 37..45 *)
ChatRequest(message) ==
    /\ Idle
    /\ http.chat.stage = "none"
    /\ http' = [http EXCEPT !.chat = ChatStart(message)]
    /\ UNCHANGED <<connected, userSocketMap, roomsFiles, rooms, ev, out>>

(* app.post("/chat"), lines 45..65, when the upstream call has settled *)
ChatSettled(outcome) ==
    /\ Idle
    /\ http.chat.stage = "awaiting"
    /\ http' = [http EXCEPT !.chat = ChatFinish(@, outcome)]
    /\ UNCHANGED <<connected, userSocketMap, roomsFiles, rooms, ev, out>>

(* The response has left; the client may send its next /chat request. *)
ChatEnd ==
    /\ Idle
    /\ http.chat.stage = "done"
    /\ http' = [http EXCEPT !.chat = NoChat]
    /\ UNCHANGED <<connected, userSocketMap, roomsFiles, rooms, ev, out>>

(* app.post("/run"), lines 161..187 *)
RunRequest(language, code) ==
    /\ Idle
    /\ http.run.stage = "none"
    /\ http' = [http EXCEPT !.run = RunStart(language, code)]
    /\ UNCHANGED <<connected, userSocketMap, roomsFiles, rooms, ev, out>>

(* app.post("/run"), lines 177..189, when fetch has settled *)
RunFetched(ok) ==
    /\ Idle
    /\ http.run.stage = "fetching"
    /\ http' = [http EXCEPT !.run = RunAfterFetch(@, ok)]
    /\ UNCHANGED <<connected, userSocketMap, roomsFiles, rooms, ev, out>>

(* app.post("/run"), lines 189..194, when response.json() has settled *)
RunBodyRead(data) ==
    /\ Idle
    /\ http.run.stage = "reading"
    /\ http' = [http EXCEPT !.run = RunFinish(@, data)]
    /\ UNCHANGED <<connected, userSocketMap, roomsFiles, rooms, ev, out>>

(* The response has left; the client may send its next /run request. *)
RunEnd ==
    /\ Idle
    /\ http.run.stage = "done"
    /\ http' = [http EXCEPT !.run = NoRun]
    /\ UNCHANGED <<connected, userSocketMap, roomsFiles, rooms, ev, out>>

(* Inputs of the endpoints *)
ChatInputs ==
    {JsUndefined, JsNull, JsObject} \cup {JsString(s) : s \in StringsUpTo(MaxMsgLen)}
RunLanguages ==
    (DOMAIN LangMap) \cup {"rust", "constructor", "__defineGetter__", "__proto__", Undef}
RunCodes == {"x", Undef}

(* The two endpoints by themselves, with every input and upstream outcome. *)
NextHttp ==
    \/ \E m \in ChatInputs : ChatRequest(m) /\ UNCHANGED clientVars
    \/ \E o \in ChatOutcomes : ChatSettled(o) /\ UNCHANGED clientVars
    \/ ChatEnd /\ UNCHANGED clientVars
    \/ \E l \in RunLanguages, code \in RunCodes : RunRequest(l, code) /\ UNCHANGED clientVars
    \/ \E ok \in BOOLEAN : RunFetched(ok) /\ UNCHANGED clientVars
    \/ \E d \in RunDatas : RunBodyRead(d) /\ UNCHANGED clientVars
    \/ RunEnd /\ UNCHANGED clientVars

SpecHttp == Init /\ [][NextHttp]_vars

(* Payload values that are only relayed *)
Cursors == {0}
Messages == {"hi"}
Timestamps == {0}

(* A step of a socket handler: no HTTP request and no client moves. *)
ServerAlone == UNCHANGED <<http, replica, toServer, toClient>>

Next ==
    \/ \E c \in Conns : Connect(c) /\ ServerAlone
    \/ \E c \in Conns, r \in RoomIds, u \in Usernames : Join(c, r, u) /\ ServerAlone
    \/ \E c \in Conns, r \in RoomIds, code \in Contents, i \in FileIndexes :
          CodeChange(c, r, code, i) /\ ServerAlone
    \/ \E c \in Conns, r \in RoomIds, u \in Usernames, k \in Cursors :
          CursorChange(c, r, u, k) /\ ServerAlone
    \/ \E c \in Conns, r \in RoomIds, u \in Usernames, m \in Messages, t \in Timestamps :
          ChatMessage(c, r, u, m, t) /\ ServerAlone
    \/ \E c \in Conns, r \in RoomIds, f \in Files : AddFile(c, r, f) /\ ServerAlone
    \/ \E c \in Conns, r \in RoomIds, i \in FileIndexes, n \in Names :
          RenameFile(c, r, i, n) /\ ServerAlone
    \/ \E c \in Conns, r \in RoomIds, i \in FileIndexes : DeleteFile(c, r, i) /\ ServerAlone
    \/ \E c \in Conns : Disconnect(c) /\ ServerAlone
    \/ NextTick /\ ServerAlone

(* The whole server: every client event with every payload of the bounded  *)
(* sets above.                                                             *)
Spec == Init /\ [][Next]_vars

(* Membership and relay: clients connect, join either room under either    *)
(* kind of username, edit, move cursors, chat and disconnect, and send no  *)
(* add-file, rename-file or delete-file.                                   *)
NextRoster ==
    \/ \E c \in Conns : Connect(c) /\ ServerAlone
    \/ \E c \in Conns, r \in RoomIds, u \in Usernames : Join(c, r, u) /\ ServerAlone
    \/ \E c \in Conns, r \in RoomIds, code \in Contents, i \in FileIndexes :
          CodeChange(c, r, code, i) /\ ServerAlone
    \/ \E c \in Conns, r \in RoomIds, u \in Usernames, k \in Cursors :
          CursorChange(c, r, u, k) /\ ServerAlone
    \/ \E c \in Conns, r \in RoomIds, u \in Usernames, m \in Messages, t \in Timestamps :
          ChatMessage(c, r, u, m, t) /\ ServerAlone
    \/ \E c \in Conns : Disconnect(c) /\ ServerAlone
    \/ NextTick /\ ServerAlone

SpecRoster == Init /\ [][NextRoster]_vars

(* One room: every client names the room "r1" and gives the username      *)
(* "Alice"; every event occurs, with every file payload and index.         *)
StoreRoom == "r1"
StoreUser == "Alice"

NextStore ==
    \/ \E c \in Conns : Connect(c) /\ ServerAlone
    \/ \E c \in Conns : Join(c, StoreRoom, StoreUser) /\ ServerAlone
    \/ \E c \in Conns, code \in Contents, i \in FileIndexes :
          CodeChange(c, StoreRoom, code, i) /\ ServerAlone
    \/ \E c \in Conns, k \in Cursors : CursorChange(c, StoreRoom, StoreUser, k) /\ ServerAlone
    \/ \E c \in Conns, m \in Messages, t \in Timestamps :
          ChatMessage(c, StoreRoom, StoreUser, m, t) /\ ServerAlone
    \/ \E c \in Conns, f \in Files : AddFile(c, StoreRoom, f) /\ ServerAlone
    \/ \E c \in Conns, i \in FileIndexes, n \in Names :
          RenameFile(c, StoreRoom, i, n) /\ ServerAlone
    \/ \E c \in Conns, i \in FileIndexes : DeleteFile(c, StoreRoom, i) /\ ServerAlone
    \/ \E c \in Conns : Disconnect(c) /\ ServerAlone
    \/ NextTick /\ ServerAlone

SpecStore == Init /\ [][NextStore]_vars

(* The endpoints with what the libraries promise about their upstream      *)
(* calls: the openai client (index.js:29, constructed without a timeout    *)
(* option) ends a call that got no answer within its default request       *)
(* timeout by rejecting it, so a /chat call always settles; fetch          *)
(* (index.js:177) is given no timeout and no abort signal, so a /run call  *)
(* settles only if the upstream or the network settles it.                 *)
SpecHttpFair ==
    /\ SpecHttp
    /\ WF_vars(\E o \in ChatOutcomes : ChatSettled(o) /\ UNCHANGED clientVars)

(* The server as a whole process: the socket handlers for one room and    *)
(* the two HTTP endpoints take turns on the one event loop.  The payloads  *)
(* are one of each kind; the upstream calls succeed or fail.              *)
ProxyFile == [name |-> "a.py", content |-> ""]
ProxyPrompt == JsString(<<"a">>)
ProxyOutcomes == {ChatOutcome("rejected", JsNull), ChatOutcome("resolved", JsString(<<"a">>))}
ProxyData == RunData("object", "out", Undef)

NextProxy ==
    \/ \E c \in Conns : Connect(c) /\ ServerAlone
    \/ \E c \in Conns : Join(c, StoreRoom, StoreUser) /\ ServerAlone
    \/ \E c \in Conns : CodeChange(c, StoreRoom, "x", 0) /\ ServerAlone
    \/ \E c \in Conns, k \in Cursors : CursorChange(c, StoreRoom, StoreUser, k) /\ ServerAlone
    \/ \E c \in Conns, m \in Messages, t \in Timestamps :
          ChatMessage(c, StoreRoom, StoreUser, m, t) /\ ServerAlone
    \/ \E c \in Conns : AddFile(c, StoreRoom, ProxyFile) /\ ServerAlone
    \/ \E c \in Conns : RenameFile(c, StoreRoom, 0, "a.py") /\ ServerAlone
    \/ \E c \in Conns : DeleteFile(c, StoreRoom, 0) /\ ServerAlone
    \/ \E c \in Conns : Disconnect(c) /\ ServerAlone
    \/ NextTick /\ ServerAlone
    \/ ChatRequest(ProxyPrompt) /\ UNCHANGED clientVars
    \/ \E o \in ProxyOutcomes : ChatSettled(o) /\ UNCHANGED clientVars
    \/ ChatEnd /\ UNCHANGED clientVars
    \/ RunRequest("python", "x") /\ UNCHANGED clientVars
    \/ \E ok \in BOOLEAN : RunFetched(ok) /\ UNCHANGED clientVars
    \/ RunBodyRead(ProxyData) /\ UNCHANGED clientVars
    \/ RunEnd /\ UNCHANGED clientVars

SpecProxy == Init /\ [][NextProxy]_vars

(* Two rooms side by side: every event occurs in either room, with one    *)
(* payload of each kind.                                                   *)
NextRooms ==
    \/ \E c \in Conns : Connect(c) /\ ServerAlone
    \/ \E c \in Conns, r \in RoomIds : Join(c, r, StoreUser) /\ ServerAlone
    \/ \E c \in Conns, r \in RoomIds : CodeChange(c, r, "x", 0) /\ ServerAlone
    \/ \E c \in Conns, r \in RoomIds, k \in Cursors :
          CursorChange(c, r, StoreUser, k) /\ ServerAlone
    \/ \E c \in Conns, r \in RoomIds, m \in Messages, t \in Timestamps :
          ChatMessage(c, r, StoreUser, m, t) /\ ServerAlone
    \/ \E c \in Conns, r \in RoomIds : AddFile(c, r, ProxyFile) /\ ServerAlone
    \/ \E c \in Conns, r \in RoomIds : RenameFile(c, r, 0, "a.py") /\ ServerAlone
    \/ \E c \in Conns, r \in RoomIds : DeleteFile(c, r, 0) /\ ServerAlone
    \/ \E c \in Conns : Disconnect(c) /\ ServerAlone
    \/ NextTick /\ ServerAlone

SpecRooms == Init /\ [][NextRooms]_vars

(* The room "r1" beside a room id that is the name of an inherited         *)
(* property of the store object: every event occurs naming either, with    *)
(* one payload of each kind.                                               *)
StoreRooms == {StoreRoom, ProtoRoom}

NextInherited ==
    \/ \E c \in Conns : Connect(c) /\ ServerAlone
    \/ \E c \in Conns, r \in StoreRooms : Join(c, r, StoreUser) /\ ServerAlone
    \/ \E c \in Conns, r \in StoreRooms : CodeChange(c, r, "x", 0) /\ ServerAlone
    \/ \E c \in Conns, r \in StoreRooms, k \in Cursors :
          CursorChange(c, r, StoreUser, k) /\ ServerAlone
    \/ \E c \in Conns, r \in StoreRooms, m \in Messages, t \in Timestamps :
          ChatMessage(c, r, StoreUser, m, t) /\ ServerAlone
    \/ \E c \in Conns, r \in StoreRooms : AddFile(c, r, ProxyFile) /\ ServerAlone
    \/ \E c \in Conns, r \in StoreRooms : RenameFile(c, r, 0, "a.py") /\ ServerAlone
    \/ \E c \in Conns, r \in StoreRooms : DeleteFile(c, r, 0) /\ ServerAlone
    \/ \E c \in Conns : Disconnect(c) /\ ServerAlone
    \/ NextTick /\ ServerAlone

SpecInherited == Init /\ [][NextInherited]_vars

----------------------------------------------------------------------------
(* The clients of one room.  Each joined client keeps a replica of the     *)
(* room's file list: it starts from the initialize-files snapshot, applies *)
(* its own code edit before it sends it, sends add-file, rename-file and   *)
(* delete-file without applying them, and applies every code-change,       *)
(* file-added, file-renamed and file-deleted event it receives.  A         *)
(* connection carries the events of each direction in the order sent.     *)

MaxInFlight == 1

FileEvents == {"initialize-files", "code-change", "file-added", "file-renamed", "file-deleted"}

ValidIndex(files, i) == i >= 0 /\ i < Len(files)

(* The replica after the client has handled a server event. *)
Apply(rep, e) ==
    IF e.event = "initialize-files"
    THEN [phase |-> "ready", files |-> e.data.files]
    ELSE IF e.event = "code-change" /\ ValidIndex(rep.files, e.data.fileIndex)
    THEN [rep EXCEPT !.files[e.data.fileIndex + 1].content = e.data.code]
    ELSE IF e.event = "file-added"
    THEN [rep EXCEPT !.files = Append(@, e.data.file)]
    ELSE IF e.event = "file-renamed" /\ ValidIndex(rep.files, e.data.fileIndex)
    THEN [rep EXCEPT !.files[e.data.fileIndex + 1].name = e.data.newName]
    ELSE IF e.event = "file-deleted" /\ ValidIndex(rep.files, e.data.fileIndex)
    THEN [rep EXCEPT !.files = Splice(@, e.data.fileIndex)]
    ELSE rep

(* The file events among the emissions that are addressed to d. *)
PacketsFor(emits, d) ==
    LET ForD(e) == d \in e.to /\ e.event \in FileEvents
    IN  SelectSeq(emits, ForD)

CanSend(c) ==
    /\ c \in connected
    /\ replica[c].phase = "ready"
    /\ Len(toServer[c]) < MaxInFlight

Send(c, m) ==
    /\ toServer' = [toServer EXCEPT ![c] = Append(@, m)]
    /\ UNCHANGED <<connected, userSocketMap, roomsFiles, rooms, ev, out, http, toClient>>

ClientJoin(c) ==
    /\ c \in connected
    /\ replica[c].phase = "new"
    /\ replica' = [replica EXCEPT ![c].phase = "joining"]
    /\ Send(c, Event("join", c, StoreRoom, UndefIndex, StoreUser, NoFile))

ClientEdit(c, i, code) ==
    /\ CanSend(c)
    /\ ValidIndex(replica[c].files, i)
    /\ replica' = [replica EXCEPT ![c].files[i + 1].content = code]
    /\ Send(c, Event("code-change", c, StoreRoom, i, code, NoFile))

ClientAddFile(c, file) ==
    /\ CanSend(c)
    /\ Len(replica[c].files) < MaxFiles
    /\ Send(c, Event("add-file", c, StoreRoom, UndefIndex, Undef, file))
    /\ UNCHANGED replica

ClientRenameFile(c, i, newName) ==
    /\ CanSend(c)
    /\ ValidIndex(replica[c].files, i)
    /\ Send(c, Event("rename-file", c, StoreRoom, i, newName, NoFile))
    /\ UNCHANGED replica

ClientDeleteFile(c, i) ==
    /\ CanSend(c)
    /\ ValidIndex(replica[c].files, i)
    /\ Send(c, Event("delete-file", c, StoreRoom, i, Undef, NoFile))
    /\ UNCHANGED replica

(* The server takes the oldest event of a connection and runs its handler; *)
(* the length test bounds the queues of the model.                         *)
ServerReceive(c) ==
    /\ toServer[c] /= <<>>
    /\ \A d \in Conns : Len(toClient[d]) < MaxInFlight
    /\ LET m == Head(toServer[c])
       IN  \/ m.type = "join" /\ Join(c, m.roomId, m.text)
           \/ m.type = "code-change" /\ CodeChange(c, m.roomId, m.text, m.fileIndex)
           \/ m.type = "add-file" /\ AddFile(c, m.roomId, m.file)
           \/ m.type = "rename-file" /\ RenameFile(c, m.roomId, m.fileIndex, m.text)
           \/ m.type = "delete-file" /\ DeleteFile(c, m.roomId, m.fileIndex)
    /\ toServer' = [toServer EXCEPT ![c] = Tail(@)]
    /\ UNCHANGED <<http, replica, toClient>>

(* The handler has returned: its packets leave for their recipients. *)
Transport ==
    /\ NextTick
    /\ toClient' = [d \in Conns |-> toClient[d] \o PacketsFor(out, d)]
    /\ UNCHANGED <<http, replica, toServer>>

ClientReceive(d) ==
    /\ toClient[d] /= <<>>
    /\ replica' = [replica EXCEPT ![d] = Apply(@, Head(toClient[d]))]
    /\ toClient' = [toClient EXCEPT ![d] = Tail(@)]
    /\ UNCHANGED <<connected, userSocketMap, roomsFiles, rooms, ev, out, http, toServer>>

(* The texts the clients type *)
ClientContents == {"x", "y"}

NextClients ==
    \/ \E c \in Conns : Connect(c) /\ ServerAlone
    \/ \E c \in Conns : ClientJoin(c)
    \/ \E c \in Conns, i \in 0..(MaxFiles - 1), code \in ClientContents : ClientEdit(c, i, code)
    \/ \E c \in Conns : ClientAddFile(c, ProxyFile)
    \/ \E c \in Conns, i \in 0..(MaxFiles - 1) : ClientRenameFile(c, i, "a.py")
    \/ \E c \in Conns, i \in 0..(MaxFiles - 1) : ClientDeleteFile(c, i)
    \/ \E c \in Conns : ServerReceive(c)
    \/ Transport
    \/ \E d \in Conns : ClientReceive(d)

SpecClients == Init /\ [][NextClients]_vars

----------------------------------------------------------------------------
(* Properties *)

(* The connections subscribed to a room's broadcast group. *)
Subscribed(roomId) == Range(rooms[roomId])

(* C1: in a join, the initialize-files snapshot is emitted to the joiner   *)
(* strictly before the 'joined' roster of that join is emitted to anyone:  *)
(* every 'joined' emission is preceded, in the handler's emission order,   *)
(* by an initialize-files emission addressed to the joiner alone.          *)
C1_SnapshotBeforeRoster ==
    /\ ev.type = "join" =>
          \E j \in DOMAIN out : out[j].event = "joined"
    /\ \A j \in DOMAIN out :
          out[j].event = "joined" =>
             \E i \in 1..(j - 1) :
                /\ out[i].event = "initialize-files"
                /\ out[i].to = {ev.conn}

(* A second connection of the room receives the roster of a join. *)
C1_Witness ==
    /\ ev.type = "join"
    /\ \E j \in DOMAIN out :
          /\ out[j].event = "joined"
          /\ \E d \in out[j].to : d /= ev.conn

(* C2: the rebroadcast of a code-change or cursor-change sent by c naming  *)
(* room r is delivered to every connection subscribed to r other than c,   *)
(* and never to c itself.                                                  *)
C2_RelayExcludesSender ==
    ev.type \in {"code-change", "cursor-change"} =>
       /\ Len(out) = 1
       /\ out[1].event = ev.type
       /\ \A d \in Subscribed(ev.roomId) : d /= ev.conn => d \in out[1].to
       /\ ev.conn \notin out[1].to

(* A subscribed sender's edit reaches another member of the room. *)
C2_Witness ==
    /\ ev.type = "code-change"
    /\ ev.conn \in Subscribed(ev.roomId)
    /\ out[1].to /= {}

(* C3 as stated: every chat-message sent by c naming r is broadcast back   *)
(* to c as well as to every other connection in room r, whoever the sender *)
(* is; the handler changes neither the registry nor the store.             *)
C3_Original ==
    [][ev'.type = "chat-message" =>
         /\ Len(out') = 1
         /\ out'[1].event = "chat-message"
         /\ ev'.conn \in out'[1].to
         /\ \A d \in Subscribed(ev'.roomId) : d \in out'[1].to
         /\ userSocketMap' = userSocketMap
         /\ roomsFiles' = roomsFiles]_vars

(* C3 amended: every chat-message sent by c naming r is broadcast to every *)
(* connection subscribed to r, c itself included whenever c is subscribed  *)
(* to r (a sender that is not subscribed to r is not among the             *)
(* recipients); the handler changes neither the registry nor the store.    *)
C3_ChatReachesRoom ==
    [][ev'.type = "chat-message" =>
         /\ Len(out') = 1
         /\ out'[1].event = "chat-message"
         /\ \A d \in Subscribed(ev'.roomId) : d \in out'[1].to
         /\ ev'.conn \in Subscribed(ev'.roomId) => ev'.conn \in out'[1].to
         /\ ev'.conn \notin Subscribed(ev'.roomId) => ev'.conn \notin out'[1].to
         /\ userSocketMap' = userSocketMap
         /\ roomsFiles' = roomsFiles]_vars

(* A subscribed sender's chat message comes back to it and reaches another *)
(* member.                                                                 *)
C3_Witness ==
    /\ ev.type = "chat-message"
    /\ ev.conn \in out[1].to
    /\ \E d \in out[1].to : d /= ev.conn

(* C4 as stated: every room that has been joined (some connection's        *)
(* registry record names it) has a file list of length at least one.       *)
C4_JoinedRoomHasFile ==
    \A c \in DOMAIN userSocketMap :
       /\ userSocketMap[c].roomId \in DOMAIN roomsFiles
       /\ Len(roomsFiles[userSocketMap[c].roomId]) >= 1

(* C5 as stated: a room that comes into existence in the Room Store, by    *)
(* whichever event, has exactly the default file main.py with empty        *)
(* content, and a join to a room that already exists leaves its list alone. *)
C5_RoomCreatedWithDefaultFile ==
    [][/\ \A r \in RoomIds :
             (r \notin DOMAIN roomsFiles /\ r \in DOMAIN roomsFiles') =>
                roomsFiles'[r] = <<DefaultFile>>
       /\ (ev'.type = "join" /\ ev'.roomId \in DOMAIN roomsFiles) =>
             roomsFiles' = roomsFiles]_vars

(* C6: delete-file at a valid index i of a room with n files leaves n-1    *)
(* files, those formerly before i in place and each one formerly at j > i  *)
(* now at j-1 with the same name and content; and a code-change naming the *)
(* index just past the end of the list (where a deleted last file was)     *)
(* leaves the file list unchanged.                                         *)
C6_DeleteShiftsDown ==
    [][/\ (ev'.type = "delete-file" /\ HasFile(roomsFiles, ev'.roomId, ev'.fileIndex)) =>
             /\ DOMAIN roomsFiles' = DOMAIN roomsFiles
             /\ Len(roomsFiles'[ev'.roomId]) = Len(roomsFiles[ev'.roomId]) - 1
             /\ \A j \in 0..(Len(roomsFiles[ev'.roomId]) - 1) :
                   /\ j < ev'.fileIndex =>
                        roomsFiles'[ev'.roomId][j + 1] = roomsFiles[ev'.roomId][j + 1]
                   /\ j > ev'.fileIndex =>
                        roomsFiles'[ev'.roomId][j] = roomsFiles[ev'.roomId][j + 1]
       /\ (ev'.type = "code-change" /\ ev'.roomId \in DOMAIN roomsFiles
             /\ ev'.fileIndex = Len(roomsFiles[ev'.roomId])) =>
             roomsFiles' = roomsFiles]_vars

(* The first of two files was deleted: the second one moved down to index 0. *)
C6_Witness ==
    /\ ev.type = "delete-file"
    /\ ev.fileIndex = 0
    /\ ev.roomId \in DOMAIN roomsFiles
    /\ Len(roomsFiles[ev.roomId]) = MaxFiles - 1
    /\ out /= <<>>

(* C7 as stated: a rename-file or delete-file whose roomId or fileIndex    *)
(* references no existing file leaves every file list unchanged and no     *)
(* file-renamed / file-deleted broadcast is emitted to any connection.     *)
C7_InvalidRenameDeleteIsSilent ==
    [][(ev'.type \in {"rename-file", "delete-file"}
          /\ ~HasFile(roomsFiles, ev'.roomId, ev'.fileIndex)) =>
         /\ roomsFiles' = roomsFiles
         /\ \A i \in DOMAIN out' : out'[i].to = {}]_vars

(* C8 as stated: a code-change whose roomId or fileIndex names no existing *)
(* file is dropped: the store is unchanged and no code-change is relayed   *)
(* to any connection.                                                      *)
C8_InvalidCodeChangeIsDropped ==
    [][(ev'.type = "code-change"
          /\ ~HasFile(roomsFiles, ev'.roomId, ev'.fileIndex)) =>
         /\ roomsFiles' = roomsFiles
         /\ \A i \in DOMAIN out' : out'[i].to = {}]_vars

(* C9: the disconnect of a connection that never sent a join (it has no    *)
(* registry record) emits nothing and leaves the registry and the store    *)
(* unchanged.                                                              *)
C9_UnjoinedDisconnectIsNoOp ==
    [][(ev'.type = "disconnect" /\ ev'.conn \notin DOMAIN userSocketMap) =>
         /\ out' = <<>>
         /\ userSocketMap' = userSocketMap
         /\ roomsFiles' = roomsFiles]_vars

(* A connection without a record disconnected while another connection     *)
(* was joined to a room.                                                   *)
C9_Witness ==
    /\ ev.type = "disconnect"
    /\ ev.roomId = Undef
    /\ \E d \in DOMAIN userSocketMap : Truthy(userSocketMap[d].roomId)

(* C10 as stated: when a joined connection c with registry room r          *)
(* disconnects, its record is removed and exactly one 'disconnected' event *)
(* is broadcast to the connections remaining in r, carrying c's id and a   *)
(* roster without c that contains every connection still subscribed to r.  *)
C10_JoinedDisconnectBroadcasts ==
    [][(ev'.type = "disconnect" /\ ev'.conn \in DOMAIN userSocketMap) =>
         /\ ev'.conn \notin DOMAIN userSocketMap'
         /\ Len(out') = 1
         /\ out'[1].event = "disconnected"
         /\ out'[1].to = Range(rooms'[userSocketMap[ev'.conn].roomId])
         /\ out'[1].data.socketId = ev'.conn
         /\ {out'[1].data.clients[i].socketId : i \in DOMAIN out'[1].data.clients}
               = Range(rooms'[userSocketMap[ev'.conn].roomId])
         /\ ev'.conn \notin Range(rooms'[userSocketMap[ev'.conn].roomId])]_vars

(* C10, the case the code does handle: when c's registry room r is a       *)
(* non-empty string, the disconnect removes c's record and broadcasts      *)
(* exactly one 'disconnected' event to the connections remaining in r,     *)
(* with c's id and the roster of those connections.                        *)
C10_NonEmptyRoomDisconnectBroadcasts ==
    [][(ev'.type = "disconnect" /\ ev'.conn \in DOMAIN userSocketMap
          /\ Truthy(userSocketMap[ev'.conn].roomId)) =>
         /\ ev'.conn \notin DOMAIN userSocketMap'
         /\ Len(out') = 1
         /\ out'[1].event = "disconnected"
         /\ out'[1].to = Range(rooms'[userSocketMap[ev'.conn].roomId])
         /\ out'[1].data.socketId = ev'.conn
         /\ {out'[1].data.clients[i].socketId : i \in DOMAIN out'[1].data.clients}
               = Range(rooms'[userSocketMap[ev'.conn].roomId])
         /\ ev'.conn \notin Range(rooms'[userSocketMap[ev'.conn].roomId])]_vars

(* The display name the registry holds for a connection. *)
DisplayName(c) ==
    IF c \in DOMAIN userSocketMap /\ Truthy(userSocketMap[c].username)
    THEN userSocketMap[c].username
    ELSE "Anonymous"

(* C11 as stated: every roster broadcast for room r, in a 'joined' or a    *)
(* 'disconnected' event, lists exactly the connected connections whose     *)
(* registry record has roomId = r, each once and with its display name, so *)
(* no connection is listed in a room other than its registry room.         *)
C11_RosterIsRegistryMembers ==
    \A j \in DOMAIN out :
       out[j].event \in {"joined", "disconnected"} =>
          /\ {out[j].data.clients[i].socketId : i \in DOMAIN out[j].data.clients}
                = {c \in connected : /\ c \in DOMAIN userSocketMap
                                     /\ userSocketMap[c].roomId = ev.roomId}
          /\ \A i, k \in DOMAIN out[j].data.clients :
                out[j].data.clients[i].socketId = out[j].data.clients[k].socketId => i = k
          /\ \A i \in DOMAIN out[j].data.clients :
                out[j].data.clients[i].username
                   = DisplayName(out[j].data.clients[i].socketId)

(* A /chat or /run request is suspended at an await. *)
Suspended == http.chat.stage = "awaiting" \/ http.run.stage \in {"fetching", "reading"}

(* Every room event of connection c can be processed now. *)
RoomEventsEnabled(c) ==
    /\ ENABLED Join(c, StoreRoom, StoreUser)
    /\ ENABLED CodeChange(c, StoreRoom, "x", 0)
    /\ ENABLED CursorChange(c, StoreRoom, StoreUser, 0)
    /\ ENABLED ChatMessage(c, StoreRoom, StoreUser, "hi", 0)
    /\ (StoreRoom \in DOMAIN roomsFiles => Len(roomsFiles[StoreRoom]) < MaxFiles)
          => ENABLED AddFile(c, StoreRoom, ProxyFile)
    /\ ENABLED RenameFile(c, StoreRoom, 0, "a.py")
    /\ ENABLED DeleteFile(c, StoreRoom, 0)
    /\ ENABLED Disconnect(c)

(* C12: while a /chat or /run request is suspended at its upstream call,   *)
(* whenever the last room handler has returned every room event of every   *)
(* live connection can be processed, and a room event changes nothing of   *)
(* the request: no step of a proxy request (its start, its continuation    *)
(* after the upstream answered or failed, its end) changes the Connection  *)
(* Registry, the Room Store, the groups or the connections, and it emits   *)
(* nothing to a socket.                                                    *)
C12_ProxyNeverStallsRooms ==
    /\ []((Suspended /\ ev = NoEvent) => \A c \in connected : RoomEventsEnabled(c))
    /\ [][http' /= http =>
            UNCHANGED <<connected, userSocketMap, roomsFiles, rooms, ev, out>>]_vars
    /\ [][ev' /= NoEvent => http' = http]_vars

(* A file was added and announced to the room while both requests were     *)
(* suspended.                                                              *)
C12_Witness ==
    /\ http.chat.stage = "awaiting"
    /\ http.run.stage = "fetching"
    /\ ev.type = "add-file"
    /\ out[1].to /= {}

(* C13 as stated: every /chat and every /run request eventually receives *)
(* a response; a request whose upstream fails or never answers does not    *)
(* stay pending forever.                                                   *)
C13_EveryRequestAnswered ==
    /\ (http.chat.stage = "awaiting") ~> (http.chat.stage = "done")
    /\ (http.run.stage \in {"fetching", "reading"}) ~> (http.run.stage = "done")

(* The message of a /chat request is absent, empty or whitespace only. *)
AbsentOrBlank(message) ==
    \/ message.kind \in {"undefined", "null"}
    \/ /\ message.kind = "string"
       /\ \A i \in DOMAIN message.chars : message.chars[i] \in Whitespace

(* C14: a /chat request whose message is absent or blank is answered with  *)
(* status 400 and the reply "Please enter a message." and the upstream is  *)
(* never called for it; a request with a non-blank message whose upstream  *)
(* call fails is answered with status 500 and the fixed unavailable        *)
(* message; every answer is that 400, that 500, or a 200 with the reply of *)
(* an upstream call that succeeded.                                        *)
C14_ChatAnswers ==
    /\ AbsentOrBlank(http.chat.message) => http.chat.upstream = "uncalled"
    /\ http.chat.stage = "done" =>
          /\ AbsentOrBlank(http.chat.message) =>
                http.chat.response = ChatResponse(400, PleaseEnter)
          /\ (~AbsentOrBlank(http.chat.message) /\ http.chat.upstream = "rejected") =>
                http.chat.response = ChatResponse(500, Unavailable)
          /\ \/ http.chat.response = ChatResponse(400, PleaseEnter)
             \/ http.chat.response = ChatResponse(500, Unavailable)
             \/ /\ http.chat.response.status = 200
                /\ http.chat.upstream = "resolved"

(* A message of spaces only was answered with the 400 prompt. *)
C14_Witness ==
    /\ http.chat.stage = "done"
    /\ http.chat.message.kind = "string"
    /\ Len(http.chat.message.chars) > 0
    /\ AbsentOrBlank(http.chat.message)
    /\ http.chat.response.status = 400

(* C15 as stated: every answer of /run has the success status and a       *)
(* payload {output}: the upstream's output, else its error field, else     *)
(* "No output", or "Error running code" when the upstream call failed; and *)
(* a request whose language is not one of the recognized names is          *)
(* forwarded with language python3 and version "4".                        *)
C15_RunAnswers ==
    /\ http.run.stage = "done" =>
          /\ http.run.response.status = 200
          /\ http.run.data.kind = "object" =>
                http.run.response.output =
                   IF Truthy(http.run.data.output) THEN http.run.data.output
                   ELSE IF Truthy(http.run.data.error) THEN http.run.data.error
                   ELSE "No output"
          /\ http.run.data.kind /= "object" =>
                http.run.response.output = "Error running code"
    /\ (http.run.stage /= "none" /\ http.run.language \notin DOMAIN LangMap) =>
          /\ "language" \in DOMAIN http.run.sent
          /\ "versionIndex" \in DOMAIN http.run.sent
          /\ http.run.sent["language"] = "python3"
          /\ http.run.sent["versionIndex"] = "4"

(* Nothing is under way: no handler runs and every queue is empty. *)
Quiescent ==
    /\ ev = NoEvent
    /\ \A c \in Conns : toServer[c] = <<>> /\ toClient[c] = <<>>

(* C16 as stated: when two or more clients have joined the room, once      *)
(* every message in flight has been delivered the file list of every       *)
(* joined client (names and contents, in order) equals the Room Store's    *)
(* list of the room.                                                       *)
C16_ViewsConverge ==
    (Quiescent /\ Cardinality({c \in Conns : replica[c].phase = "ready"}) >= 2) =>
       \A c \in Conns :
          replica[c].phase = "ready" =>
             /\ StoreRoom \in DOMAIN roomsFiles
             /\ replica[c].files = roomsFiles[StoreRoom]

(* The file list of a room, empty for a room the store does not hold. *)
FilesOf(rf, roomId) == IF roomId \in DOMAIN rf THEN rf[roomId] ELSE <<>>

(* C17 as stated: an add-file (r, f) on a room with n files (n = 0 for a   *)
(* room the store does not hold yet) leaves a list of length n+1 whose     *)
(* first n entries are unchanged and whose entry n is f, and exactly one   *)
(* file-added event carrying f and index n is delivered to every           *)
(* connection in r, the sender among them when it is one of them.          *)
C17_AddFileAppends ==
    [][ev'.type = "add-file" =>
         /\ Len(FilesOf(roomsFiles', ev'.roomId)) = Len(FilesOf(roomsFiles, ev'.roomId)) + 1
         /\ \A j \in 1..Len(FilesOf(roomsFiles, ev'.roomId)) :
               roomsFiles'[ev'.roomId][j] = roomsFiles[ev'.roomId][j]
         /\ roomsFiles'[ev'.roomId][Len(FilesOf(roomsFiles, ev'.roomId)) + 1] = ev'.file
         /\ Len(out') = 1
         /\ out'[1].event = "file-added"
         /\ out'[1].data = [file |-> ev'.file,
                            fileIndex |-> Len(FilesOf(roomsFiles, ev'.roomId))]
         /\ out'[1].to = Subscribed(ev'.roomId)]_vars

(* C18 as stated: a join to room r emits exactly one initialize-files      *)
(* snapshot, to the joining connection only, and it carries the Room       *)
(* Store's file list of r at that moment, which for a room the store       *)
(* already held is the list as the earlier code-change, add-file,          *)
(* rename-file and delete-file events left it; neither a join nor a        *)
(* disconnect removes or changes the list of a room the store holds,       *)
(* whoever has left in between.                                            *)
C18_SnapshotIsStore ==
    [][/\ ev'.type = "join" =>
             /\ ev'.roomId \in DOMAIN roomsFiles'
             /\ \E i \in DOMAIN out' :
                   /\ out'[i].event = "initialize-files"
                   /\ out'[i].to = {ev'.conn}
                   /\ out'[i].data = StoreValue("array", roomsFiles'[ev'.roomId])
                   /\ \A k \in DOMAIN out' : out'[k].event = "initialize-files" => k = i
             /\ ev'.roomId \in DOMAIN roomsFiles =>
                   roomsFiles'[ev'.roomId] = roomsFiles[ev'.roomId]
       /\ ev'.type \in {"join", "disconnect"} =>
             \A r \in DOMAIN roomsFiles :
                /\ r \in DOMAIN roomsFiles'
                /\ roomsFiles'[r] = roomsFiles[r]]_vars

(* C19: an event that names room r (join, code-change, cursor-change,      *)
(* chat-message, add-file, rename-file, delete-file) neither creates nor   *)
(* changes the file list of any other room, and each of its emissions is   *)
(* delivered only to connections subscribed to r's broadcast group (for a  *)
(* join, the group with the joiner in it).                                 *)
C19_RoomIsolation ==
    [][ev'.type \in {"join", "code-change", "cursor-change", "chat-message",
                     "add-file", "rename-file", "delete-file"} =>
         /\ \A r \in RoomIds \ {ev'.roomId} :
               /\ r \in DOMAIN roomsFiles' <=> r \in DOMAIN roomsFiles
               /\ r \in DOMAIN roomsFiles => roomsFiles'[r] = roomsFiles[r]
         /\ \A i \in DOMAIN out' : out'[i].to \subseteq Range(rooms'[ev'.roomId])]_vars

(* A file was added to one room and announced there while the other room   *)
(* had a file list and a member who is not in the first room.              *)
C19_Witness ==
    /\ ev.type = "add-file"
    /\ out[1].to /= {}
    /\ \E r \in RoomIds \ {ev.roomId} :
          /\ r \in DOMAIN roomsFiles
          /\ \E d \in Subscribed(r) : d \notin Subscribed(ev.roomId)

(* The registry record of c names room r. *)
Member(c, roomId) == c \in DOMAIN userSocketMap /\ userSocketMap[c].roomId = roomId

(* C20 as stated: a connection whose registry record does not have         *)
(* roomId = r cannot, by a code-change, cursor-change, chat-message,       *)
(* add-file, rename-file or delete-file naming r, change r's file list,    *)
(* create r in the Room Store, or have any event delivered to a connection *)
(* of r.                                                                   *)
C20_Original ==
    [][(ev'.type \in {"code-change", "cursor-change", "chat-message",
                      "add-file", "rename-file", "delete-file"}
          /\ ~Member(ev'.conn, ev'.roomId)) =>
         /\ ev'.roomId \in DOMAIN roomsFiles' <=> ev'.roomId \in DOMAIN roomsFiles
         /\ FilesOf(roomsFiles', ev'.roomId) = FilesOf(roomsFiles, ev'.roomId)
         /\ \A i \in DOMAIN out' : out'[i].to = {}]_vars

(* C20 amended: the handlers do not look at the sender's registry record.  *)
(* For an event naming r from a connection whose record does not have      *)
(* roomId = r: a cursor-change or chat-message leaves the Room Store       *)
(* unchanged; no event other than add-file creates a room, and an add-file *)
(* that creates r leaves exactly its file there; an add-file to a room the *)
(* store holds appends its file to r's list and announces it; a            *)
(* code-change at an index of r's list sets that file's content; a         *)
(* code-change, cursor-change or chat-message relay and the announcement   *)
(* of an appended file are delivered to every connection subscribed to r   *)
(* other than the sender; and nothing is delivered outside r's group.      *)
C20_NonMemberIsRelayed ==
    [][(ev'.type \in {"code-change", "cursor-change", "chat-message",
                      "add-file", "rename-file", "delete-file"}
          /\ ~Member(ev'.conn, ev'.roomId)) =>
         /\ ev'.type \in {"cursor-change", "chat-message"} => roomsFiles' = roomsFiles
         /\ ev'.type /= "add-file" => DOMAIN roomsFiles' = DOMAIN roomsFiles
         /\ (ev'.type = "add-file" /\ ev'.roomId \notin DOMAIN roomsFiles
               /\ ev'.roomId \in DOMAIN roomsFiles') =>
               roomsFiles'[ev'.roomId] = <<ev'.file>>
         /\ (ev'.type = "add-file" /\ ev'.roomId \in DOMAIN roomsFiles) =>
               /\ ev'.roomId \in DOMAIN roomsFiles'
               /\ roomsFiles'[ev'.roomId] = Append(roomsFiles[ev'.roomId], ev'.file)
         /\ (ev'.type = "code-change" /\ HasFile(roomsFiles, ev'.roomId, ev'.fileIndex)) =>
               roomsFiles'[ev'.roomId][ev'.fileIndex + 1].content = ev'.text
         /\ (\/ ev'.type \in {"code-change", "cursor-change", "chat-message"}
             \/ ev'.type = "add-file" /\ ev'.roomId \in DOMAIN roomsFiles) =>
               /\ Len(out') = 1
               /\ Subscribed(ev'.roomId) \ {ev'.conn} \subseteq out'[1].to
         /\ \A i \in DOMAIN out' : out'[i].to \subseteq Subscribed(ev'.roomId)]_vars

(* The edit of a connection that joined the other room changed a file of   *)
(* this room and was relayed to a member of it.                            *)
C20_Witness ==
    /\ ev.type = "code-change"
    /\ ev.conn \in DOMAIN userSocketMap
    /\ ~Member(ev.conn, ev.roomId)
    /\ HasFile(roomsFiles, ev.roomId, ev.fileIndex)
    /\ \E d \in out[1].to : Member(d, ev.roomId)

====
